---- MODULE Spec2Model ----
(***************************************************************************)
(* Model of api/renewer.go: the Renewer that keeps a Vault secret (an auth *)
(* token or a leased secret) renewed in a background task until renewal    *)
(* fails, is no longer useful, or Stop is called.                          *)
(***************************************************************************)
EXTENDS Integers, Sequences, FiniteSets, TLC

(***************************************************************************)
(* time.Duration: a signed 64-bit count of nanoseconds.  TLC's integers    *)
(* are 32 bits wide, so a Duration is kept as its 8 bytes, least           *)
(* significant first, in two's complement; the operators below compute     *)
(* exactly what Go's int64 arithmetic computes, wrap-around included.      *)
(***************************************************************************)
Byte == 0..255

Limbs == 1..8

Duration == [Limbs -> Byte]

\* The one element of a singleton set.  The operators below are written as
\* The({e(x) : x \in {a}}), which computes their argument a once and e from its
\* value, instead of computing a again wherever e mentions it.
The(S) == CHOOSE v \in S : TRUE

\* The bytes of a natural number below 2^31.
FromNat(n) ==
    [i \in Limbs |-> IF i <= 4 THEN (n \div (256 ^ (i - 1))) % 256 ELSE 0]

RECURSIVE AddFrom(_, _, _, _)
\* Bytes i..8 of a + b + carry, carries propagated, the carry out of byte 8 dropped.
AddFrom(a, b, i, carry) ==
    IF i > 8 THEN << >>
    ELSE The({<< s % 256 >> \o AddFrom(a, b, i + 1, s \div 256) :
                s \in {a[i] + b[i] + carry}})

\* a + b on int64.
Add64(a, b) == The({AddFrom(x, y, 1, 0) : x \in {a}, y \in {b}})

Not64(a) == The({[i \in Limbs |-> 255 - x[i]] : x \in {a}})

\* -a on int64.
Neg64(a) == Add64(Not64(a), FromNat(1))

\* time.Duration(n) for an int n of the model's range.
FromInt(n) == IF n >= 0 THEN FromNat(n) ELSE Neg64(FromNat(0 - n))

RECURSIVE ColSum(_, _, _, _)
\* The sum of a[i] * b[k + 1 - i] for i in i..k: column k of the product.
ColSum(a, b, k, i) ==
    IF i > k THEN 0 ELSE a[i] * b[k + 1 - i] + ColSum(a, b, k, i + 1)

RECURSIVE MulFrom(_, _, _, _)
\* Bytes k..8 of the product, from the column sums and the carry into column k.
MulFrom(a, b, k, carry) ==
    IF k > 8 THEN << >>
    ELSE The({<< s % 256 >> \o MulFrom(a, b, k + 1, s \div 256) :
                s \in {ColSum(a, b, k, 1) + carry}})

\* a * b on int64: the low 64 bits of the product.
Mul64(a, b) == The({MulFrom(x, y, 1, 0) : x \in {a}, y \in {b}})

IsNeg(a) == a[8] >= 128

RECURSIVE ULessFrom(_, _, _)
\* Unsigned a < b, decided from byte i downwards.
ULessFrom(a, b, i) ==
    IF i = 0 THEN FALSE
    ELSE IF a[i] # b[i] THEN a[i] < b[i]
    ELSE ULessFrom(a, b, i - 1)

\* Signed a < b.
Less64(a, b) ==
    \E x \in {a}, y \in {b} :
        IF IsNeg(x) # IsNeg(y) THEN IsNeg(x) ELSE ULessFrom(x, y, 8)

\* Signed a <= b.
Leq64(a, b) == \E x \in {a}, y \in {b} : x = y \/ Less64(x, y)

\* Logical shift right by one bit.
Shr1(a) ==
    The({[i \in Limbs |->
            (x[i] \div 2) + (IF i < 8 THEN (x[i + 1] % 2) * 128 ELSE 0)] :
         x \in {a}})

\* a / 2 on int64: Go's integer division truncates toward zero.
Half64(a) ==
    The({IF IsNeg(x) THEN Neg64(Shr1(Neg64(x))) ELSE Shr1(x) : x \in {a}})

\* time.Second = 1000000000 nanoseconds.
Second == FromNat(1000000000)

Seconds(n) == Mul64(FromInt(n), Second)

(***************************************************************************)
(* Values                                                                  *)
(***************************************************************************)
\* A nil error.
Nil == "nil"

\* A nil pointer.  (A record, as the values pointed to are records.)
Null == [null |-> TRUE]

\* No timer is armed.
NoTimer == << >>

\* No renewal is in scope: before the first remote call returns and after the
\* iteration that received it has ended.
NoRenewal == [none |-> TRUE]

ErrRenewerMissingInput == "missing input to renewer"

ErrRenewerMissingSecret == "missing secret to renew"

ErrRenewerNotRenewable == "secret is not renewable"

ErrRenewerNoSecretData == "returned empty secret data"

\* DefaultRenewerGrace = 15 * time.Second
DefaultRenewerGrace == Seconds(15)

\* cap(doneCh)
DoneCap == 1

\* Mutant: the tick channel buffers as little as the done channel.
TickCapAsDone == DoneCap

\* cap(tickCh)
TickCap == 5

\* Bounds of the model: the remote calls one run may issue, and the number of
\* goroutines that call Stop.
MaxCalls == 6

NumCallers == 2

Callers == 1..NumCallers

\* The lease durations (in seconds) a renewal response may report.
LeaseSecs == {10, 100}

Tokens == {"", "s.token"}

LeaseIDs == {"", "aws/creds/1"}

\* *Secret, as far as the renewer reads it: Auth (nil or a *SecretAuth) and the
\* secret's own Renewable and LeaseID.
Secrets ==
    [Auth : {Null} \cup [Renewable : BOOLEAN, ClientToken : Tokens],
     Renewable : BOOLEAN, LeaseID : LeaseIDs]

Graces == {FromNat(0), Seconds(10)}

\* *RenewerInput
Inputs == {Null} \cup [Secret : {Null} \cup Secrets, Grace : Graces]

\* The *Secret a remote renewal returns.
Renewals ==
    {Null} \cup
    [Auth : {Null} \cup [Renewable : BOOLEAN, LeaseDuration : LeaseSecs],
     Renewable : BOOLEAN, LeaseDuration : LeaseSecs]

RemoteErrors == {"connection refused", "permission denied"}

\* What RenewTokenAsSelf and Sys().Renew return: (renewal, err).
Results ==
    [renewal : Renewals, err : {Nil}] \cup [renewal : {Null}, err : RemoteErrors]

VARIABLES
    input,     \* history: the *RenewerInput given to NewRenewer
    created,   \* NewRenewer's result: "pending", "ok", or the error returned
    secret,    \* r.secret
    grace,     \* r.grace
    doneCh,    \* r.doneCh: the values buffered in it
    tickCh,    \* r.tickCh: the number of struct{}{} buffered in it
    stopped,   \* r.stopped
    stopCh,    \* r.stopCh: "open" or "closed"
    mu,        \* r.Mutex: 0, or the caller that holds it
    panicked,  \* a goroutine panicked (close of a closed channel)
    stopPc,    \* where each caller is in Stop
    pc,        \* where the goroutine running Renew is
    fn,        \* the helper Renew dispatched to
    renewal,   \* renewal of the last remote call
    err,       \* err of the last remote call
    timer,     \* the duration given to time.After while the loop sleeps
    retval,    \* what renewAuth / renewLease returned
    calls,     \* the remote calls issued, each with its arguments
    okCalls,   \* history: remote calls that returned without error
    ticks,     \* history: ticks written to tickCh
    doneSent,  \* history: values written to doneCh
    doneRecv,  \* history: the values the consumer received from DoneCh()
    stopDone,  \* history: a Stop call has returned
    dropped,   \* history: ticks given up in the select's default case
    lateCalls, \* history: remote calls begun after a Stop call returned
    stopFirst, \* history: a Stop call had returned when Renew was started
    wokeStopped \* history: the sleep ended by the timer with stopCh closed

chans == <<doneCh, tickCh>>
stopState == <<stopped, stopCh, mu, panicked, stopPc, stopDone>>
fields == <<input, created, secret, grace>>
task == <<pc, fn, renewal, err, timer, retval>>
hist ==
    <<calls, okCalls, ticks, dropped, doneSent, lateCalls, stopFirst, wokeStopped>>
vars == <<fields, chans, stopState, task, hist, doneRecv>>

Init ==
    /\ input = Null
    /\ created = "pending"
    /\ secret = Null
    /\ grace = FromNat(0)
    /\ doneCh = << >>
    /\ tickCh = 0
    /\ stopped = FALSE
    /\ stopCh = "open"
    /\ mu = 0
    /\ panicked = FALSE
    /\ stopPc = [c \in Callers |-> "idle"]
    /\ pc = "init"
    /\ fn = "none"
    /\ renewal = NoRenewal
    /\ err = Nil
    /\ timer = NoTimer
    /\ retval = Nil
    /\ calls = << >>
    /\ okCalls = 0
    /\ ticks = 0
    /\ doneSent = 0
    /\ doneRecv = << >>
    /\ stopDone = FALSE
    /\ dropped = 0
    /\ lateCalls = 0
    /\ stopFirst = FALSE
    /\ wokeStopped = FALSE

\* The renewer exists and the process has not crashed.
Live == created = "ok" /\ ~panicked

(***************************************************************************)
(* NewRenewer                                                              *)
(***************************************************************************)
\* Mutant: the grace is taken as given, a zero grace stays zero.
GraceAsGiven(g) == g

\* grace := i.Grace; if grace == 0 { grace = DefaultRenewerGrace }
GraceOf(g) == IF g = FromNat(0) THEN DefaultRenewerGrace ELSE g

\* Mutant: a secret with neither auth data nor a lease ID is rejected.
NewRenewerErrStrict(i) ==
    IF i = Null THEN ErrRenewerMissingInput
    ELSE IF i.Secret = Null THEN ErrRenewerMissingSecret
    ELSE IF i.Secret.Auth = Null /\ i.Secret.LeaseID = ""
    THEN ErrRenewerMissingSecret
    ELSE Nil

\* The error NewRenewer returns for input i, Nil when it returns a Renewer.
NewRenewerErr(i) ==
    IF i = Null THEN ErrRenewerMissingInput
    ELSE IF i.Secret = Null THEN ErrRenewerMissingSecret
    ELSE Nil

NewRenewerOf(inputs) ==
    /\ created = "pending"
    /\ \E i \in inputs :
          /\ input' = i
          /\ IF NewRenewerErr(i) # Nil
             THEN /\ created' = NewRenewerErr(i)
                  /\ UNCHANGED <<secret, grace>>
             ELSE /\ created' = "ok"
                  /\ secret' = i.Secret
                  /\ grace' = GraceOf(i.Grace)
    /\ doneCh' = << >>
    /\ tickCh' = 0
    /\ stopped' = FALSE
    /\ stopCh' = "open"
    /\ UNCHANGED <<mu, panicked, stopPc, stopDone, task, hist, doneRecv>>

NewRenewer == NewRenewerOf(Inputs)

(***************************************************************************)
(* Stop, called by caller c                                                *)
(***************************************************************************)
\* r.Lock()
StopLock(c) ==
    /\ Live
    /\ stopPc[c] = "idle"
    /\ mu = 0
    /\ mu' = c
    /\ stopPc' = [stopPc EXCEPT ![c] = "locked"]
    /\ UNCHANGED <<fields, chans, stopped, stopCh, panicked, stopDone, task, hist, doneRecv>>

\* Mutant: Stop closes the signal without looking at the flag.
StopAlways == TRUE

\* if !r.stopped
StopNeeded == ~stopped

\* if !r.stopped { close(r.stopCh) ... : closing a closed channel panics.
StopClose(c) ==
    /\ Live
    /\ stopPc[c] = "locked"
    /\ IF StopNeeded
       THEN IF stopCh = "closed"
            THEN /\ panicked' = TRUE
                 /\ UNCHANGED <<stopCh, stopPc>>
            ELSE /\ stopCh' = "closed"
                 /\ stopPc' = [stopPc EXCEPT ![c] = "closed"]
                 /\ UNCHANGED panicked
       ELSE /\ stopPc' = [stopPc EXCEPT ![c] = "unlock"]
            /\ UNCHANGED <<stopCh, panicked>>
    /\ UNCHANGED <<fields, chans, stopped, mu, stopDone, task, hist, doneRecv>>

\* Mutant: Stop also reports the clean stop on the done channel itself.
StopMarkAndSignal(c) ==
    /\ Live
    /\ stopPc[c] = "closed"
    /\ stopped' = TRUE
    /\ stopPc' = [stopPc EXCEPT ![c] = "unlock"]
    /\ doneCh' = IF Len(doneCh) < DoneCap THEN Append(doneCh, Nil) ELSE doneCh
    /\ UNCHANGED <<fields, tickCh, stopCh, mu, panicked, stopDone, task, hist, doneRecv>>

\* r.stopped = true
StopMark(c) ==
    /\ Live
    /\ stopPc[c] = "closed"
    /\ stopped' = TRUE
    /\ stopPc' = [stopPc EXCEPT ![c] = "unlock"]
    /\ UNCHANGED <<fields, chans, stopCh, mu, panicked, stopDone, task, hist, doneRecv>>

\* Mutant: Stop empties the tick channel before it returns.
StopUnlockDrains(c) ==
    /\ Live
    /\ stopPc[c] = "unlock"
    /\ mu' = 0
    /\ stopPc' = [stopPc EXCEPT ![c] = "idle"]
    /\ stopDone' = TRUE
    /\ tickCh' = 0
    /\ UNCHANGED <<fields, doneCh, stopped, stopCh, panicked, task, hist, doneRecv>>

\* r.Unlock(), and Stop returns
StopUnlock(c) ==
    /\ Live
    /\ stopPc[c] = "unlock"
    /\ mu' = 0
    /\ stopPc' = [stopPc EXCEPT ![c] = "idle"]
    /\ stopDone' = TRUE
    /\ UNCHANGED <<fields, chans, stopped, stopCh, panicked, task, hist, doneRecv>>

Stop(c) == StopLock(c) \/ StopClose(c) \/ StopMark(c) \/ StopUnlock(c)

(***************************************************************************)
(* Renew, renewAuth and renewLease                                         *)
(***************************************************************************)
\* Renew: if r.secret.Auth != nil { renewAuth } else { renewLease }
Dispatch(s) == IF s.Auth # Null THEN "renewAuth" ELSE "renewLease"

\* Mutant: the identifier is not checked.
RenewableFlagOnly(f, s) ==
    IF f = "renewAuth" THEN s.Auth.Renewable ELSE s.Renewable

\* The checks renewAuth and renewLease make before their loop.
Renewable(f, s) ==
    IF f = "renewAuth"
    THEN s.Auth.Renewable /\ s.Auth.ClientToken # ""
    ELSE s.Renewable /\ s.LeaseID # ""

\* Mutant: a secret that has a lease ID is renewed as a lease, whichever helper
\* runs.
RemoteCallByLease(f, s) ==
    IF s.LeaseID # ""
    THEN [op |-> "Renew", id |-> s.LeaseID, increment |-> 0]
    ELSE [op |-> "RenewTokenAsSelf", id |-> s.Auth.ClientToken, increment |-> 0]

\* The remote call of each helper: RenewTokenAsSelf(token, 0), Renew(leaseID, 0).
RemoteCall(f, s) ==
    IF f = "renewAuth"
    THEN [op |-> "RenewTokenAsSelf", id |-> s.Auth.ClientToken, increment |-> 0]
    ELSE [op |-> "Renew", id |-> s.LeaseID, increment |-> 0]

\* renewal == nil || renewal.Auth == nil (renewAuth); renewal == nil (renewLease)
NoSecretData(f, rn) ==
    IF f = "renewAuth" THEN rn = Null \/ rn.Auth = Null ELSE rn = Null

\* Mutant: renewAuth reads the secret's flag, as renewLease does.
NotRenewableSecret(f, rn) == ~rn.Renewable

\* !renewal.Auth.Renewable (renewAuth); !renewal.Renewable (renewLease)
NotRenewable(f, rn) ==
    IF f = "renewAuth" THEN ~rn.Auth.Renewable ELSE ~rn.Renewable

\* leaseDuration := time.Duration(renewal[.Auth].LeaseDuration) * time.Second
LeaseDuration(f, rn) ==
    IF f = "renewAuth"
    THEN Mul64(FromInt(rn.Auth.LeaseDuration), Second)
    ELSE Mul64(FromInt(rn.LeaseDuration), Second)

\* Mutant: the grace itself is not within grace.
WithinGraceStrict(ld, g) == Less64(ld, g)

\* Mutant: every lease duration is within grace.
WithinGraceAlways(ld, g) == TRUE

\* if leaseDuration <= r.grace
WithinGrace(ld, g) == Leq64(ld, g)

\* time.Duration(leaseDuration/2.0) * time.Second
SleepFor(ld) == Mul64(Half64(ld), Second)

\* Mutant: the helper looks at the stop signal before it checks the secret.
RenewStopFirst ==
    /\ Live
    /\ pc = "init"
    /\ fn' = Dispatch(secret)
    /\ IF stopCh = "closed"
       THEN /\ pc' = "send"
            /\ retval' = Nil
       ELSE IF Renewable(fn', secret)
       THEN /\ pc' = "loop"
            /\ UNCHANGED retval
       ELSE /\ pc' = "send"
            /\ retval' = ErrRenewerNotRenewable
    /\ stopFirst' = stopDone
    /\ UNCHANGED <<fields, chans, stopState, renewal, err, timer, calls, okCalls,
                   ticks, doneSent, lateCalls, wokeStopped, dropped, doneRecv>>

\* Renew is started: it picks the helper, which checks the secret before its loop.
Renew ==
    /\ Live
    /\ pc = "init"
    /\ fn' = Dispatch(secret)
    /\ IF Renewable(fn', secret)
       THEN /\ pc' = "loop"
            /\ UNCHANGED retval
       ELSE /\ pc' = "send"
            /\ retval' = ErrRenewerNotRenewable
    /\ stopFirst' = stopDone
    /\ UNCHANGED <<fields, chans, stopState, renewal, err, timer, calls, okCalls,
                   ticks, doneSent, lateCalls, wokeStopped, dropped, doneRecv>>

\* Mutant: the loop does not look at the signal before it renews.
StopNeverObserved == FALSE

\* case <-r.stopCh: of the select at the top of the loop is ready.
StopObserved == stopCh = "closed"

\* select { case <-r.stopCh: return nil; default: } at the top of the loop.
\* (An iteration begins only while the run has remote calls left.)
CheckStopped ==
    /\ Live
    /\ pc = "loop"
    /\ IF StopObserved
       THEN /\ pc' = "send"
            /\ retval' = Nil
       ELSE /\ Len(calls) < MaxCalls
            /\ pc' = "renew"
            /\ UNCHANGED retval
    /\ UNCHANGED <<fields, chans, stopState, fn, renewal, err, timer, hist, doneRecv>>

\* The remote call begins.
CallRemote ==
    /\ Live
    /\ pc = "renew"
    /\ pc' = "inflight"
    /\ calls' = Append(calls, RemoteCall(fn, secret))
    /\ lateCalls' = IF stopDone THEN lateCalls + 1 ELSE lateCalls
    /\ UNCHANGED <<fields, chans, stopState, fn, renewal, err, timer, retval,
                   okCalls, ticks, doneSent, wokeStopped, stopFirst,
                   dropped, doneRecv>>

\* Mutant: the error of the remote call is dropped.
FailedNever(e) == FALSE

\* if err != nil
Failed(e) == e # Nil

\* The remote call returns; if err != nil { return err }
RemoteReturn ==
    /\ Live
    /\ pc = "inflight"
    /\ \E res \in Results :
          /\ renewal' = res.renewal
          /\ err' = res.err
          /\ okCalls' = IF res.err = Nil THEN okCalls + 1 ELSE okCalls
          /\ IF Failed(res.err)
             THEN /\ pc' = "send"
                  /\ retval' = res.err
             ELSE /\ pc' = "tick"
                  /\ UNCHANGED retval
    /\ UNCHANGED <<fields, chans, stopState, fn, timer, calls, ticks, doneSent,
                   lateCalls, wokeStopped, stopFirst,
                   dropped, doneRecv>>

\* Mutant: a plain send, r.tickCh <- struct{}{}, which waits for room.
PushTickBlocking ==
    /\ Live
    /\ pc = "tick"
    /\ tickCh < TickCap
    /\ tickCh' = tickCh + 1
    /\ ticks' = ticks + 1
    /\ pc' = "eval"
    /\ UNCHANGED <<fields, doneCh, stopState, fn, renewal, err, timer, retval,
                   calls, okCalls, doneSent, lateCalls, wokeStopped, stopFirst,
                   dropped, doneRecv>>

\* select { case r.tickCh <- struct{}{}: default: }
PushTick ==
    /\ Live
    /\ pc = "tick"
    /\ IF tickCh < TickCap
       THEN /\ tickCh' = tickCh + 1
            /\ ticks' = ticks + 1
            /\ UNCHANGED dropped
       ELSE /\ dropped' = dropped + 1
            /\ UNCHANGED <<tickCh, ticks>>
    /\ pc' = "eval"
    /\ UNCHANGED <<fields, doneCh, stopState, fn, renewal, err, timer, retval,
                   calls, okCalls, doneSent, lateCalls, wokeStopped, stopFirst,
                   doneRecv>>

\* Mutant: the lease duration is compared with the grace before the renewable
\* flag is read.
VerdictGraceFirst(f, rn, g) ==
    IF NoSecretData(f, rn) THEN ErrRenewerNoSecretData
    ELSE IF WithinGrace(LeaseDuration(f, rn), g) THEN Nil
    ELSE IF NotRenewable(f, rn) THEN ErrRenewerNotRenewable
    ELSE "sleep"

\* What the helper returns after a successful call, "sleep" when it goes on.
Verdict(f, rn, g) ==
    IF NoSecretData(f, rn) THEN ErrRenewerNoSecretData
    ELSE IF NotRenewable(f, rn) THEN ErrRenewerNotRenewable
    ELSE IF WithinGrace(LeaseDuration(f, rn), g) THEN Nil
    ELSE "sleep"

\* The checks of the response, down to the select that sleeps.  The renewal of
\* an iteration that goes on is dropped with the iteration.
Evaluate ==
    /\ Live
    /\ pc = "eval"
    /\ IF Verdict(fn, renewal, grace) = "sleep"
       THEN /\ pc' = "sleep"
            /\ timer' = SleepFor(LeaseDuration(fn, renewal))
            /\ renewal' = NoRenewal
            /\ UNCHANGED retval
       ELSE /\ pc' = "send"
            /\ retval' = Verdict(fn, renewal, grace)
            /\ UNCHANGED <<timer, renewal>>
    /\ UNCHANGED <<fields, chans, stopState, fn, err, hist, doneRecv>>

\* case <-r.stopCh: of the select that sleeps is ready.
StopSignalled == stopCh = "closed"

\* Mutant: a stop seen while sleeping is reported as an error.
WakeStoppedAsError ==
    /\ Live
    /\ pc = "sleep"
    /\ StopSignalled
    /\ pc' = "send"
    /\ retval' = "renewer stopped"
    /\ timer' = NoTimer
    /\ UNCHANGED <<fields, chans, stopState, fn, renewal, err, hist, doneRecv>>

\* select { case <-r.stopCh: return nil ... }
WakeStopped ==
    /\ Live
    /\ pc = "sleep"
    /\ StopSignalled
    /\ pc' = "send"
    /\ retval' = Nil
    /\ timer' = NoTimer
    /\ UNCHANGED <<fields, chans, stopState, fn, renewal, err, hist, doneRecv>>

\* select { ... case <-time.After(...): continue }
WakeTimer ==
    /\ Live
    /\ pc = "sleep"
    /\ pc' = "loop"
    /\ timer' = NoTimer
    /\ wokeStopped' = (wokeStopped \/ stopCh = "closed")
    /\ UNCHANGED <<fields, chans, stopState, fn, renewal, err, retval,
                   calls, okCalls, ticks, doneSent, lateCalls, stopFirst,
                   dropped, doneRecv>>

\* Mutant: the result is sent from inside the loop, which then goes on.
SendDoneAndGoOn ==
    /\ Live
    /\ pc = "send"
    /\ Len(doneCh) < DoneCap
    /\ doneCh' = Append(doneCh, retval)
    /\ doneSent' = doneSent + 1
    /\ pc' = "loop"
    /\ UNCHANGED <<fields, tickCh, stopState, fn, renewal, err, timer, retval,
                   calls, okCalls, ticks, lateCalls, wokeStopped, stopFirst,
                   dropped, doneRecv>>

\* r.doneCh <- (what the helper returned), and Renew returns
SendDone ==
    /\ Live
    /\ pc = "send"
    /\ Len(doneCh) < DoneCap
    /\ doneCh' = Append(doneCh, retval)
    /\ doneSent' = doneSent + 1
    /\ pc' = "returned"
    /\ UNCHANGED <<fields, tickCh, stopState, fn, renewal, err, timer, retval,
                   calls, okCalls, ticks, lateCalls, wokeStopped, stopFirst,
                   dropped, doneRecv>>

(***************************************************************************)
(* The consumer of DoneCh() and TickCh()                                   *)
(***************************************************************************)
\* <-renewer.TickCh()
RecvTick ==
    /\ Live
    /\ tickCh > 0
    /\ tickCh' = tickCh - 1
    /\ UNCHANGED <<fields, doneCh, stopState, task, hist, doneRecv>>

\* err := <-renewer.DoneCh()
RecvDone ==
    /\ Live
    /\ doneCh # << >>
    /\ doneRecv' = Append(doneRecv, Head(doneCh))
    /\ doneCh' = Tail(doneCh)
    /\ UNCHANGED <<fields, tickCh, stopState, task, hist>>

RenewStep ==
    \/ Renew
    \/ CheckStopped
    \/ CallRemote
    \/ RemoteReturn
    \/ PushTick
    \/ Evaluate
    \/ WakeStopped
    \/ WakeTimer
    \/ SendDone

Next ==
    \/ NewRenewer
    \/ \E c \in Callers : Stop(c)
    \/ RenewStep
    \/ RecvTick
    \/ RecvDone

Spec == Init /\ [][Next]_vars

\* The steps of a running Renew: the goroutine is scheduled, the remote call
\* returns, the timer fires.
LoopStep ==
    \/ CheckStopped
    \/ CallRemote
    \/ RemoteReturn
    \/ PushTick
    \/ Evaluate
    \/ WakeStopped
    \/ WakeTimer
    \/ SendDone

\* The steps of a Stop call that holds the lock.
StopStep == \E c \in Callers : StopClose(c) \/ StopMark(c) \/ StopUnlock(c)

\* The inputs of the runs checked for progress: a renewable token, a renewable
\* lease and a lease that is not renewable, with a grace of 10 seconds.
FairInputs ==
    [Secret : {[Auth |-> [Renewable |-> TRUE, ClientToken |-> "s.token"],
                Renewable |-> FALSE, LeaseID |-> ""],
               [Auth |-> Null, Renewable |-> TRUE, LeaseID |-> "aws/creds/1"],
               [Auth |-> Null, Renewable |-> FALSE, LeaseID |-> "aws/creds/1"]},
     Grace : {Seconds(10)}]

\* The same program, constructed from FairInputs and stopped by one caller.
FairNext ==
    \/ NewRenewerOf(FairInputs)
    \/ Stop(1)
    \/ RenewStep
    \/ RecvTick
    \/ RecvDone

\* A started Renew and a Stop call that holds the lock keep running; whether
\* Renew or Stop is ever called, and whether the consumer ever reads, is left open.
FairSpec ==
    Init /\ [][FairNext]_vars /\ WF_vars(LoopStep) /\ WF_vars(StopStep)

(***************************************************************************)
(* Properties                                                              *)
(***************************************************************************)
\* Every value ever written to doneCh, in the order written (the channel is
\* first-in first-out and has one consumer).
Outcomes == doneRecv \o doneCh

\* renewAuth / renewLease has returned.
Terminated == pc \in {"send", "returned"}

\* C1: with Renew started once, the done channel receives exactly one value in
\* total: none before Renew writes it, one once Renew has finished, never two;
\* every write is Renew's own send, and no step of Stop changes the channel.
C1_DoneExactlyOnce ==
    /\ [](/\ doneSent <= 1
          /\ Len(Outcomes) = doneSent
          /\ (pc = "returned" => doneSent = 1)
          /\ (pc # "returned" => doneSent = 0))
    /\ [][Len(doneRecv') + Len(doneCh') > Len(doneRecv) + Len(doneCh)
            => (pc = "send" /\ pc' = "returned" /\ UNCHANGED stopState)]_vars
    /\ [][(\E c \in Callers : Stop(c)) => UNCHANGED <<doneCh, doneRecv>>]_vars

\* Renew has finished after remote calls and a completed Stop, and its one value
\* has been read by the consumer.
C1_Witness ==
    /\ pc = "returned"
    /\ stopDone
    /\ Len(calls) >= 2
    /\ doneSent = 1
    /\ Len(doneRecv) = 1

\* C2: however many Stop calls run, from however many callers, the cancellation
\* signal is never closed twice (no panic), the stopped flag and the signal
\* never go back, and whenever nobody holds the lock the flag is true exactly
\* when the signal is closed.
C2_StopIdempotent ==
    /\ [](/\ ~panicked
          /\ (mu = 0 => (stopped <=> stopCh = "closed")))
    /\ [][stopped => stopped']_vars
    /\ [][stopCh = "closed" => stopCh' = "closed"]_vars

\* A Stop call has returned and a later call, having found the flag set, is
\* about to unlock while the other caller waits.
C2_Witness ==
    /\ stopDone
    /\ stopped
    /\ \E c \in Callers : stopPc[c] = "unlock" /\ mu = c
    /\ pc = "inflight"

\* C3: once a remote call has returned an error, the helper has returned
\* exactly that error, it is the only value the done channel ever gets, no tick
\* is written from then on (so none for that call) and no remote call is issued.
C3_ErrorIsOutcome ==
    /\ [](err # Nil =>
            /\ Terminated
            /\ retval = err
            /\ okCalls = Len(calls) - 1
            /\ ticks <= okCalls
            /\ (doneSent >= 1 => Outcomes = <<err>>))
    /\ [][err # Nil => (calls' = calls /\ ticks' = ticks /\ tickCh' <= tickCh)]_vars

\* The third remote call failed after two that succeeded, and the consumer has
\* received the error.
C3_Witness ==
    /\ err = "permission denied"
    /\ Len(calls) = 3
    /\ ticks = 2
    /\ doneRecv = <<"permission denied">>

\* The secret fails the check its helper makes before the loop: the auth data of
\* a secret that has any, otherwise the secret's own flag and lease ID.
C4_Unrenewable ==
    /\ secret # Null
    /\ IF secret.Auth # Null
       THEN ~secret.Auth.Renewable \/ secret.Auth.ClientToken = ""
       ELSE ~secret.Renewable \/ secret.LeaseID = ""

\* C4: for a secret that is not renewable or has an empty identifier, a started
\* Renew has returned NotRenewable, can always deliver it, delivers nothing else,
\* and no remote call is ever issued and no tick ever written.
C4_NotRenewableAtStart ==
    (C4_Unrenewable /\ pc # "init") =>
        /\ Terminated
        /\ retval = ErrRenewerNotRenewable
        /\ calls = << >>
        /\ ticks = 0
        /\ tickCh = 0
        /\ (pc = "send" => ENABLED SendDone)
        /\ (doneSent >= 1 => Outcomes = <<ErrRenewerNotRenewable>>)

\* An auth secret with a renewable flag but an empty token, whose own flag and
\* lease ID would pass: NotRenewable has been delivered without a remote call.
C4_Witness ==
    /\ created = "ok"
    /\ secret.Auth # Null
    /\ secret.Auth.Renewable
    /\ secret.Auth.ClientToken = ""
    /\ secret.Renewable
    /\ secret.LeaseID # ""
    /\ doneRecv = <<ErrRenewerNotRenewable>>
    /\ calls = << >>

\* The last remote call succeeded and its renewal, still in scope, carries the
\* data its helper reads.
HasResp ==
    /\ err = Nil
    /\ renewal \notin {NoRenewal, Null}
    /\ (fn = "renewAuth" => renewal.Auth # Null)

\* The part of the renewal that describes the renewed object: the auth data for a
\* token, the secret itself for a lease.
Resp == IF fn = "renewAuth" THEN renewal.Auth ELSE renewal

\* n seconds as a Duration, for the lease durations of the model.
SecondsOf == [n \in LeaseSecs |-> Seconds(n)]

\* The response reports a lifetime of at most the grace.
RespWithinGrace == Leq64(SecondsOf[Resp.LeaseDuration], grace)

\* C5: a renewable response whose lifetime is at most the grace makes the helper
\* return nil, nil is then the only outcome, and no remote call follows it; a
\* renewable response whose lifetime exceeds the grace sends the loop to sleep,
\* so a helper that returned on a renewable response returned within grace.
C5_GraceExit ==
    /\ []((Terminated /\ HasResp /\ Resp.Renewable) =>
            /\ RespWithinGrace
            /\ retval = Nil
            /\ (doneSent >= 1 => Outcomes = <<Nil>>))
    /\ [][(pc = "eval" /\ pc' # "eval" /\ HasResp /\ Resp.Renewable) =>
            IF RespWithinGrace
            THEN pc' = "send" /\ retval' = Nil
            ELSE pc' = "sleep"]_vars
    /\ [][(HasResp /\ Resp.Renewable /\ RespWithinGrace) => calls' = calls]_vars

\* The second response reported a lifetime equal to the grace; nil was delivered
\* with the signal never fired.
C5_Witness ==
    /\ HasResp
    /\ Resp.Renewable
    /\ SecondsOf[Resp.LeaseDuration] = grace
    /\ Len(calls) = 2
    /\ stopCh = "open"
    /\ doneRecv = <<Nil>>

\* C6: a response that reports renewable = false, the first or a later one,
\* makes the helper return NotRenewable, which is then the only outcome, and no
\* remote call follows it.
C6_NotRenewableResponse ==
    /\ []((Terminated /\ HasResp /\ ~Resp.Renewable) =>
            /\ retval = ErrRenewerNotRenewable
            /\ (doneSent >= 1 => Outcomes = <<ErrRenewerNotRenewable>>))
    /\ [][(pc = "eval" /\ pc' # "eval" /\ HasResp /\ ~Resp.Renewable) =>
            (pc' = "send" /\ retval' = ErrRenewerNotRenewable)]_vars
    /\ [][(HasResp /\ ~Resp.Renewable) => calls' = calls]_vars

\* The third response, after two renewable ones, reported renewable = false for
\* the token while the secret's own flag was true.
C6_Witness ==
    /\ fn = "renewAuth"
    /\ HasResp
    /\ ~Resp.Renewable
    /\ renewal.Renewable
    /\ okCalls = 3
    /\ doneRecv = <<ErrRenewerNotRenewable>>

\* The last response was a renewable one reporting a lifetime above twice the grace.
RespLong ==
    /\ HasResp
    /\ Resp.Renewable
    /\ Less64(Add64(grace, grace), SecondsOf[Resp.LeaseDuration])

\* C7: for a renewable secret, a helper that returned while the signal was not
\* fired returned on an error or on a response that was not a renewable one with
\* lifetime above twice the grace; a helper that returned on no response at all
\* returned nil on the fired signal.  Under fair scheduling a started loop goes
\* on until it returns or has used the calls of the run, and once the signal is
\* fired the outcome is written.
C7_RunsUntilStopped ==
    /\ []((Terminated /\ ~C4_Unrenewable) =>
            /\ (stopCh = "open" => (err # Nil \/ (renewal # NoRenewal /\ ~RespLong)))
            /\ ((err = Nil /\ renewal = NoRenewal) =>
                    (retval = Nil /\ stopCh = "closed")))
    /\ ((pc # "init") ~> (pc = "returned" \/ (pc = "loop" /\ Len(calls) = MaxCalls)))
    /\ ((pc # "init" /\ stopCh = "closed") ~> (doneSent = 1))

\* Every call of the run succeeded and went on, Stop was then called, and nil
\* was delivered.
C7_Witness ==
    /\ Len(calls) = MaxCalls
    /\ okCalls = MaxCalls
    /\ renewal = NoRenewal
    /\ stopDone
    /\ doneRecv = <<Nil>>

\* C8: at most one remote call begins after a Stop call has returned; a loop
\* that checks the fired signal returns nil; a loop woken by the timer with the
\* signal fired issues no remote call any more.
C8_NoCallAfterStop ==
    /\ [](lateCalls <= 1)
    /\ [][(pc = "loop" /\ pc' # "loop" /\ stopCh = "closed") =>
            (pc' = "send" /\ retval' = Nil)]_vars
    /\ [][(pc = "sleep" /\ stopCh = "closed") => pc' \in {"sleep", "loop", "send"}]_vars
    /\ [][wokeStopped => calls' = calls]_vars

\* One remote call began after Stop returned, the loop then slept, was woken by
\* the timer, and returned nil.
C8_Witness ==
    /\ lateCalls = 1
    /\ wokeStopped
    /\ pc = "returned"
    /\ retval = Nil

\* C9: the tick channel never holds more than 5 ticks, the loop can always take
\* its step at the tick (it writes one if there is room and writes none if
\* not), and under fair scheduling, whether or not the consumer ever reads, the
\* loop always gets past the tick.
C9_TickNeverBlocks ==
    /\ [](/\ tickCh <= 5
          /\ (pc = "tick" => ENABLED PushTick))
    /\ [][(pc = "tick" /\ pc' # "tick") =>
            /\ pc' = "eval"
            /\ tickCh' = (IF tickCh < 5 THEN tickCh + 1 ELSE 5)]_vars
    /\ ((pc = "tick") ~> (pc = "eval"))

\* Six calls succeeded, five ticks were written and none read, the sixth was
\* dropped, and Renew has returned.
C9_Witness ==
    /\ okCalls = 6
    /\ ticks = 5
    /\ tickCh = 5
    /\ pc = "returned"

\* C10: once a value has been written to the done channel Renew has returned,
\* and from then on no tick is written and no remote call is issued.
C10_OutcomeIsLast ==
    /\ [](Len(Outcomes) >= 1 => pc = "returned")
    /\ [][Len(Outcomes) >= 1 =>
            (calls' = calls /\ ticks' = ticks /\ tickCh' <= tickCh)]_vars

\* The outcome has been received while ticks written before it are still
\* buffered and Stop is being called.
C10_Witness ==
    /\ Len(doneRecv) = 1
    /\ ticks >= 2
    /\ tickCh >= 1
    /\ mu # 0

\* C11: a Renew whose outcome nobody has received has not returned: it waits
\* in its send on the done channel.
C11_RenewBlocksUnread == (doneRecv = << >>) => pc # "returned"

\* The successful call returned no renewal data its helper can use.
RespNoData ==
    /\ err = Nil
    /\ renewal # NoRenewal
    /\ (renewal = Null \/ (fn = "renewAuth" /\ renewal.Auth = Null))

\* A Stop call has returned, no remote call has failed, and the helper of a
\* renewable secret is running.
C12_StoppedWhileRunning ==
    /\ stopDone
    /\ err = Nil
    /\ ~C4_Unrenewable
    /\ pc \notin {"init", "send", "returned"}

\* C12 as claimed: for a renewable secret, once Stop has been called before any
\* remote call failed, the helper returns nil, whatever a call in flight returns.
C12_StopGivesNil ==
    [][(C12_StoppedWhileRunning /\ Terminated') => retval' = Nil]_vars

\* C12 as amended: for a renewable secret, once Stop has been called before any
\* remote call failed, a loop at its check returns nil and starts no call, a
\* sleeping loop returns nil or goes to its check, and a helper that returns,
\* returns nil unless a remote call already past the check returns an error
\* (then that error), no data (then NoSecretData) or a response that is not
\* renewable (then NotRenewable).
C12_StopOutcome ==
    /\ [][(C12_StoppedWhileRunning /\ Terminated') =>
            \/ /\ pc \in {"loop", "sleep"}
               /\ retval' = Nil
            \/ /\ pc = "inflight"
               /\ err' # Nil
               /\ retval' = err'
            \/ /\ pc = "eval"
               /\ retval' = (IF RespNoData THEN ErrRenewerNoSecretData
                             ELSE IF ~Resp.Renewable THEN ErrRenewerNotRenewable
                             ELSE Nil)]_vars
    /\ [][(C12_StoppedWhileRunning /\ pc = "loop") => pc' \in {"loop", "send"}]_vars
    /\ [][(C12_StoppedWhileRunning /\ pc = "sleep") =>
            pc' \in {"sleep", "loop", "send"}]_vars

\* A remote call begun after Stop returned failed, and its error was delivered.
C12_Witness ==
    /\ lateCalls = 1
    /\ okCalls = 1
    /\ err = "connection refused"
    /\ doneRecv = <<"connection refused">>

\* 15 seconds in nanoseconds, 15000000000 = 0x37E11D600.
FifteenSeconds == <<0, 214, 17, 126, 3, 0, 0, 0>>

\* What NewRenewer has returned is decided by its input alone, in the order of
\* its checks.
C13_Validated ==
    created # "pending" =>
        IF input = Null THEN created = ErrRenewerMissingInput
        ELSE IF input.Secret = Null THEN created = ErrRenewerMissingSecret
        ELSE /\ created = "ok"
             /\ secret = input.Secret
             /\ grace = IF input.Grace = FromNat(0) THEN FifteenSeconds
                        ELSE input.Grace

\* C13: NewRenewer rejects a missing input, then a missing secret whatever the
\* grace, and otherwise returns a Renewer with the given grace, or 15 seconds
\* for a zero grace, not stopped, its stop signal open, both channels empty,
\* and no remote call made.
C13_Construction ==
    /\ []C13_Validated
    /\ [][(created = "pending" /\ created' = "ok") =>
             /\ ~stopped' /\ stopCh' = "open"
             /\ doneCh' = << >> /\ tickCh' = 0
             /\ calls' = << >> /\ pc' = "init"]_vars

C13_Witness ==
    /\ created = "ok"
    /\ input.Grace = FromNat(0)
    /\ grace = FifteenSeconds
    /\ ~stopped /\ stopCh = "open" /\ doneCh = << >> /\ tickCh = 0
    /\ calls = << >>

\* C14: the timer armed after a renewable response whose lifetime of L seconds
\* exceeds the grace is half that lifetime, L/2 seconds in nanoseconds.
C14_TimerIsHalfLifetime ==
    [][(pc = "eval" /\ pc' = "sleep") =>
          timer' = Half64(SecondsOf[Resp.LeaseDuration])]_vars

\* C15: the ticks enqueued never exceed the remote calls that returned without
\* error; once the tick of a call is dealt with, the ticks enqueued and the
\* ticks given up add up to the successful calls, and a tick is given up only
\* in front of five unread ticks, so a consumer that keeps the channel from
\* filling sees one tick for each successful call when the outcome is delivered.
C15_TicksCountSuccesses ==
    /\ [](ticks <= okCalls)
    /\ [](pc # "tick" => ticks + dropped = okCalls)
    /\ [][dropped' # dropped => (tickCh = 5 /\ tickCh' = 5)]_vars
    /\ []((Terminated /\ dropped = 0) => ticks = okCalls)

C15_Witness ==
    /\ okCalls = 2 /\ ticks = 2 /\ dropped = 0
    /\ tickCh = 0
    /\ HasResp /\ Resp.Renewable /\ RespWithinGrace
    /\ doneRecv = <<Nil>>

\* C16: every remote call of a run is the one the kind of the credential given
\* to NewRenewer selects: RenewTokenAsSelf with the credential's token and
\* increment 0 when it carries auth data, Renew with the credential's lease ID
\* and increment 0 when it carries none; so the operation and the identifier
\* are the same on every call.
C16_VariantFixed ==
    \A i \in 1..Len(calls) :
        calls[i] =
            IF input.Secret.Auth # Null
            THEN [op |-> "RenewTokenAsSelf",
                  id |-> input.Secret.Auth.ClientToken, increment |-> 0]
            ELSE [op |-> "Renew", id |-> input.Secret.LeaseID, increment |-> 0]

C16_Witness ==
    /\ Len(calls) >= 2
    /\ input.Secret.Auth # Null
    /\ input.Secret.LeaseID # ""
    /\ calls[2].op = "RenewTokenAsSelf"
    /\ calls[2].id = "s.token"

\* C17: a call that returned without error first has its tick published, a
\* tick being enqueued whenever fewer than five are unread, and is then judged
\* in this order: a response without the data read gives ErrRenewerNoSecretData;
\* otherwise a response that is not renewable gives ErrRenewerNotRenewable
\* whatever its lifetime; otherwise a lifetime of at most the grace gives nil
\* and a longer one sends the loop to sleep.
C17_EvaluationOrder ==
    /\ [][(pc = "inflight" /\ pc' # "inflight" /\ err' = Nil) => pc' = "tick"]_vars
    /\ [][(pc = "tick" /\ pc' # "tick") =>
             /\ pc' = "eval"
             /\ tickCh' = IF tickCh < 5 THEN tickCh + 1 ELSE tickCh]_vars
    /\ [][pc' = "eval" => pc \in {"tick", "eval"}]_vars
    /\ [][(pc = "eval" /\ pc' # "eval") =>
             IF RespNoData
             THEN pc' = "send" /\ retval' = ErrRenewerNoSecretData
             ELSE IF ~Resp.Renewable
             THEN pc' = "send" /\ retval' = ErrRenewerNotRenewable
             ELSE IF RespWithinGrace
             THEN pc' = "send" /\ retval' = Nil
             ELSE pc' = "sleep"]_vars

C17_Witness ==
    /\ okCalls = 1 /\ ticks = 1
    /\ HasResp /\ ~Resp.Renewable /\ RespWithinGrace
    /\ doneRecv = <<ErrRenewerNotRenewable>>

\* C18: when a Stop call has returned before Renew is started, Renew issues no
\* remote call and writes no tick; its outcome is nil for a secret that passes
\* the check made before the loop, and ErrRenewerNotRenewable for one that
\* fails it, because that check comes before the first look at the signal.
C18_StopBeforeRenew ==
    stopFirst =>
        /\ calls = << >>
        /\ ticks = 0
        /\ pc \in {"loop", "send", "returned"}
        /\ Terminated =>
              /\ retval = IF C4_Unrenewable THEN ErrRenewerNotRenewable ELSE Nil
              /\ \A i \in 1..Len(Outcomes) : Outcomes[i] = retval

C18_Witness ==
    /\ stopFirst
    /\ C4_Unrenewable
    /\ calls = << >>
    /\ doneRecv = <<ErrRenewerNotRenewable>>

\* NewRenewer was given a secret with neither auth data nor a lease ID.
NoKind ==
    /\ input # Null
    /\ input.Secret # Null
    /\ input.Secret.Auth = Null
    /\ input.Secret.LeaseID = ""

\* C19: a secret with neither auth data nor a lease ID is accepted by
\* NewRenewer; Renew can start, runs renewLease, returns ErrRenewerNotRenewable
\* without a remote call or a tick, can always deliver that outcome and
\* delivers no other, and the process does not crash.
C19_NoKindCredential ==
    (NoKind /\ created # "pending") =>
        /\ created = "ok"
        /\ ~panicked
        /\ calls = << >>
        /\ ticks = 0
        /\ pc \in {"init", "send", "returned"}
        /\ pc = "init" => ENABLED Renew
        /\ pc # "init" => fn = "renewLease" /\ retval = ErrRenewerNotRenewable
        /\ pc = "send" => ENABLED SendDone
        /\ \A i \in 1..Len(Outcomes) : Outcomes[i] = ErrRenewerNotRenewable

C19_Witness ==
    /\ NoKind
    /\ input.Secret.Renewable
    /\ fn = "renewLease"
    /\ pc = "returned"
    /\ calls = << >>
    /\ doneRecv = <<ErrRenewerNotRenewable>>

\* C20: once NewRenewer has returned a Renewer, its secret and grace never
\* change; a step of Stop changes neither them nor the contents of the tick and
\* done channels nor anything of the running Renew; the stopped flag and the
\* stop signal are changed by steps of Stop only, and no step of Renew touches
\* them or the lock.
C20_Frame ==
    /\ [][created = "ok" =>
             (created' = created /\ secret' = secret /\ grace' = grace)]_vars
    /\ [][(stopPc' # stopPc \/ panicked' # panicked) =>
             /\ UNCHANGED <<fields, chans, task, doneRecv>>
             /\ UNCHANGED <<calls, okCalls, ticks, dropped, doneSent>>]_vars
    /\ [][(stopped' # stopped \/ stopCh' # stopCh \/ mu' # mu) =>
             stopPc' # stopPc]_vars
    /\ [][(pc' # pc \/ doneCh' # doneCh \/ tickCh' # tickCh) =>
             UNCHANGED <<stopped, stopCh, mu, stopPc>>]_vars

C20_Witness ==
    /\ stopDone
    /\ stopped /\ stopCh = "closed"
    /\ tickCh = 2
    /\ doneCh = <<Nil>>
    /\ pc = "returned"
    /\ secret = input.Secret
====
